---- MODULE Spec2Model ----
(***************************************************************************)
(* A model of the delta-neutral bot supervisor:                            *)
(*   src/src/exchanges/mock.py       MockExchange (an ExchangeBase)        *)
(*   src/src/strategy/delta_neutral.py  DeltaNeutralStrategy.run_loop      *)
(*   src/src/core/bot_manager.py     BotInstance, BotManager               *)
(*   src/src/core/config.py          GlobalConfig.load / save              *)
(*                                                                         *)
(* Concurrency is asyncio's: one thread, coroutines that give up control   *)
(* only at an await that suspends.  A step of the model resumes one        *)
(* coroutine at the await it is suspended in and runs it to its next       *)
(* suspension.  Every adapter call and every sleep is a suspension point.  *)
(* Time is abstracted: any ready coroutine may be the next to run.         *)
(*                                                                         *)
(* Decimal values are modelled by integers (the prices and notionals used  *)
(* divide exactly).  A number carries its Python type where the code mixes *)
(* float and Decimal: float / Decimal raises TypeError.                    *)
(***************************************************************************)
EXTENDS Integers, Sequences, FiniteSets, Bags, TLC

\* ------------------------------------------------------------------ bounds
MaxInst == 2
MaxLoops == 2
MaxAccounts == 2
MaxHold == 2
MaxFails == 2

Insts == 1..MaxInst
Legs == {"a", "b"}
Prices == {100, 250}
NoFault == {FALSE}
AnyFault == {FALSE, TRUE}

\* ------------------------------------------------------------- data model
IDLE == "IDLE"
OPENING == "OPENING"
HEDGED == "HEDGED"
CLOSING == "CLOSING"
StrategyState == {IDLE, OPENING, HEDGED, CLOSING}

DecimalTarget == [type |-> "Decimal", val |-> 1000]
FloatTarget == [type |-> "float", val |-> 1000]

NoPosition == [side |-> "none", size |-> 0, entry_price |-> 0, unrealized_pnl |-> 0]
Position(side, amount, price) ==
    [side |-> side, size |-> amount, entry_price |-> price, unrealized_pnl |-> 0]

NewExchange == [connected |-> FALSE, position |-> NoPosition]

NoConfig == [ref |-> 0, name |-> "", enabled |-> FALSE, target_size_usd |-> FloatTarget]

NewStrategy == [state |-> IDLE, target_size_usd |-> DecimalTarget, current_pnl |-> 0]

NewLoop == [pc |-> "new", price_a |-> 0, price_b |-> 0, amount_a |-> 0, amount_b |-> 0,
            n |-> 0]
DeadLoop == [pc |-> "cancelled", price_a |-> 0, price_b |-> 0, amount_a |-> 0,
             amount_b |-> 0, n |-> 0]

VARIABLES
    accounts,   \* GlobalConfig.accounts of the manager: a sequence of AccountConfig
    disk,       \* the persisted documents, by path
    mgr,        \* the manager: phase, config_path, what the caller of start_all saw
    bots,       \* BotManager.bots: a sequence of BotInstance ids
    nInst,      \* how many BotInstance objects were constructed
    bot,        \* BotInstance fields: config, running, task
    strategy,   \* DeltaNeutralStrategy fields: state, target_size_usd, current_pnl
    ex,         \* the two adapters of each instance
    loops,      \* the run_loop tasks spawned for each instance, in spawn order
    calls,      \* the bag of suspended start / stop / _restart_bot coroutines
    openFails,  \* history: consecutive failed OPENING passes of each instance
    last        \* the last call a caller made directly, and what it got back

vars == <<accounts, disk, mgr, bots, nInst, bot, strategy, ex, loops, calls, openFails, last>>
mgrVars == <<accounts, disk, mgr, bots>>

\* no call has been made yet
\* what a call gave back: a value of the named type, or the named error
Answer(type) == [type |-> type, side |-> "", amount |-> 0, price |-> 0]
NoCall == [call |-> "none", arg |-> 0, result |-> Answer("none")]
Called(call, arg, result) == [call |-> call, arg |-> arg, result |-> result]


\* -------------------------------------------------------- the adapters
OpenPositionLongShort(adapter, side, amount, price) ==
    [adapter EXCEPT !.position =
        Position(IF side = "buy" THEN "long" ELSE "short", amount, price)]
\* MockExchange.open_position: the position recorded for the symbol replaces
\* any earlier one; `price` is the execution price its own get_price returned.
OpenPosition(adapter, side, amount, price) ==
    [adapter EXCEPT !.position = Position(side, amount, price)]

\* MockExchange.close_position: the symbol's position, if any, is deleted.
ClosePosition(adapter) == [adapter EXCEPT !.position = NoPosition]

\* Whether close_position returns an Order (a position existed) or None.
CloseReturnsOrder(adapter) == adapter.position # NoPosition

\* MockExchange.get_positions: unrealized pnl is recomputed against the
\* price its get_price returned; the sign is flipped for side 'short' only.
GetPositions(adapter, current_p) ==
    IF adapter.position = NoPosition THEN adapter
    ELSE LET pos == adapter.position
             diff == current_p - pos.entry_price
             signed == IF pos.side = "short" THEN 0 - diff ELSE diff
         IN [adapter EXCEPT !.position.unrealized_pnl = signed * pos.size]

\* The list get_positions returns: the values of the positions dict.
PositionList(adapter) ==
    IF adapter.position = NoPosition THEN <<>> ELSE <<adapter.position>>

\* -------------------------------------------------------- the strategy
\* target_size_usd / price: Python refuses float / Decimal with a TypeError.
CanDivide(target) == target.type = "Decimal"
Amount(target, price) == target.val \div price

LegAmountsFromA(target, price_a, price_b) ==
    [a |-> Amount(target, price_a), b |-> Amount(target, price_a)]
\* amount_a = target_size_usd / price_a; amount_b = target_size_usd / price_b
LegAmounts(target, price_a, price_b) ==
    [a |-> Amount(target, price_a), b |-> Amount(target, price_b)]

\* The cycle IDLE -> OPENING -> HEDGED -> CLOSING -> IDLE.
Succ(st) ==
    CASE st = IDLE -> OPENING
      [] st = OPENING -> HEDGED
      [] st = HEDGED -> CLOSING
      [] st = CLOSING -> IDLE

OpeningPcs == {"get_price_a", "get_price_b", "open_a", "open_b"}
HedgedPcs == {"positions_a", "positions_b", "hold_sleep"}
ClosingPcs == {"close_a", "close_b"}
LivePcs == {"new", "idle_sleep", "error_sleep", "loop_sleep"}
               \cup OpeningPcs \cup HedgedPcs \cup ClosingPcs

At(l, pc) == [NewLoop EXCEPT !.pc = pc]

\* the handler returned: await asyncio.sleep(1) at the end of the iteration.
Returned(l) == At(l, "loop_sleep")

Outcome(l, s, e) == [loop |-> l, strategy |-> s, ex |-> e]

FailCompensates(l, s, e) ==
    Outcome(At(l, "error_sleep"), s, [e EXCEPT !.a = ClosePosition(e.a)])
FailEnds(l, s, e) == Outcome(DeadLoop, s, e)
FailResets(l, s, e) == Outcome(At(l, "error_sleep"), [s EXCEPT !.state = IDLE], e)
\* run_loop's `except Exception`: the error is logged, the state is left as
\* it is, and the loop sleeps 5 s before its next iteration.
Fail(l, s, e) == Outcome(At(l, "error_sleep"), s, e)

\* One iteration of `while True`: the handler of the current state runs to
\* its first await.  n is int(duration) of _handle_hedged.
Dispatch(l, s, e, n) ==
    CASE s.state = IDLE -> Outcome(At(l, "idle_sleep"), s, e)
      [] s.state = OPENING -> Outcome(At(l, "get_price_a"), s, e)
      [] s.state = HEDGED -> Outcome([At(l, "positions_a") EXCEPT !.n = n], s, e)
      [] s.state = CLOSING -> Outcome(At(l, "close_a"), s, e)

HandleIdleSkips(l, s, e) == Outcome(Returned(l), [s EXCEPT !.state = HEDGED], e)
\* _handle_idle after its sleep.
HandleIdle(l, s, e) == Outcome(Returned(l), [s EXCEPT !.state = OPENING], e)

\* The side _handle_opening asks of each leg: buy on A, sell on B.
RequestedSide(leg) == IF leg = "a" THEN "buy" ELSE "sell"

\* _handle_opening, resumed at each of its four awaits.  p is the price the
\* awaited call obtained; fault says the awaited adapter call raised.
HandleOpening(l, s, e, p, fault) ==
    CASE l.pc = "get_price_a" ->
            IF fault THEN Fail(l, s, e)
            ELSE Outcome([At(l, "get_price_b") EXCEPT !.price_a = p], s, e)
      [] l.pc = "get_price_b" ->
            IF fault \/ ~CanDivide(s.target_size_usd) THEN Fail(l, s, e)
            ELSE LET amount == LegAmounts(s.target_size_usd, l.price_a, p)
                 IN Outcome([At(l, "open_a") EXCEPT
                                !.price_a = l.price_a, !.price_b = p,
                                !.amount_a = amount.a, !.amount_b = amount.b], s, e)
      [] l.pc = "open_a" ->
            IF fault \/ ~e.a.connected THEN Fail(l, s, e)
            ELSE Outcome([l EXCEPT !.pc = "open_b"], s,
                         [e EXCEPT !.a = OpenPosition(e.a, RequestedSide("a"), l.amount_a, p)])
      [] l.pc = "open_b" ->
            IF fault \/ ~e.b.connected THEN Fail(l, s, e)
            ELSE Outcome(Returned(l), [s EXCEPT !.state = HEDGED],
                         [e EXCEPT !.b = OpenPosition(e.b, RequestedSide("b"), l.amount_b, p)])

HandleHedgedForever(l, s, e, p, fault) ==
    IF l.pc = "hold_sleep" THEN Outcome(At(l, "positions_a"), s, e)
    ELSE Outcome(At(l, IF l.pc = "positions_a" THEN "positions_b" ELSE "hold_sleep"), s, e)
\* _handle_hedged, resumed at each await of its monitoring loop.
HandleHedged(l, s, e, p, fault) ==
    CASE l.pc = "positions_a" ->
            IF fault \/ PositionList(e.a) = <<>> THEN Fail(l, s, e)
            ELSE Outcome([At(l, "positions_b") EXCEPT !.n = l.n], s,
                         [e EXCEPT !.a = GetPositions(e.a, p)])
      [] l.pc = "positions_b" ->
            IF fault \/ PositionList(e.b) = <<>> THEN Fail(l, s, e)
            ELSE LET eb == GetPositions(e.b, p)
                 IN Outcome([At(l, "hold_sleep") EXCEPT !.n = l.n],
                            [s EXCEPT !.current_pnl = e.a.position.unrealized_pnl
                                                      + eb.position.unrealized_pnl],
                            [e EXCEPT !.b = eb])
      [] l.pc = "hold_sleep" ->
            IF l.n > 1 THEN Outcome([At(l, "positions_a") EXCEPT !.n = l.n - 1], s, e)
            ELSE Outcome(Returned(l), [s EXCEPT !.state = CLOSING], e)

HandleClosingSkipsB(l, s, e, fault) ==
    IF fault THEN Fail(l, s, e)
    ELSE Outcome(Returned(l), [s EXCEPT !.state = IDLE, !.current_pnl = 0],
                 [e EXCEPT !.a = ClosePosition(e.a)])
\* _handle_closing, resumed at each of its two awaits.
HandleClosing(l, s, e, fault) ==
    CASE l.pc = "close_a" ->
            IF fault THEN Fail(l, s, e)
            ELSE Outcome(At(l, "close_b"), s, [e EXCEPT !.a = ClosePosition(e.a)])
      [] l.pc = "close_b" ->
            IF fault THEN Fail(l, s, e)
            ELSE Outcome(Returned(l), [s EXCEPT !.state = IDLE, !.current_pnl = 0],
                         [e EXCEPT !.b = ClosePosition(e.b)])

\* run_loop resumed at the await it is suspended in.
RunLoop(l, s, e, p, n, fault) ==
    CASE l.pc \in {"new", "loop_sleep"} -> Dispatch(l, s, e, n)
      [] l.pc = "error_sleep" -> Outcome(Returned(l), s, e)
      [] l.pc = "idle_sleep" -> HandleIdle(l, s, e)
      [] l.pc \in OpeningPcs -> HandleOpening(l, s, e, p, fault)
      [] l.pc \in HedgedPcs -> HandleHedged(l, s, e, p, fault)
      [] l.pc \in ClosingPcs -> HandleClosing(l, s, e, fault)

CancelledCloses(l, s, e) ==
    Outcome(DeadLoop, s, [e EXCEPT !.a = ClosePosition(e.a), !.b = ClosePosition(e.b)])
CancelledResets(l, s, e) == Outcome(DeadLoop, [s EXCEPT !.state = IDLE], e)
\* run_loop resumed after task.cancel(): CancelledError is raised at the
\* await; `except Exception` does not catch it, no handler statement runs and
\* nothing is closed or reset.
Cancelled(l, s, e) == Outcome(DeadLoop, s, e)

\* The event loop resumes run_loop task k of instance i.  A task whose
\* cancellation was requested gets CancelledError at its await, which
\* `except Exception` does not catch: the task ends.
Resume(i, k, P, F) ==
    /\ i \in 1..nInst
    /\ k \in 1..Len(loops[i])
    /\ loops[i][k].pc # "cancelled"
    /\ \E p \in P, n \in 1..MaxHold, fault \in F :
         LET l == loops[i][k]
             r == IF l.pc = "cancelling"
                  THEN Cancelled(l, strategy[i], ex[i])
                  ELSE RunLoop(l, strategy[i], ex[i], p, n, fault)
         IN /\ loops' = [loops EXCEPT ![i][k] = r.loop]
            /\ strategy' = [strategy EXCEPT ![i] = r.strategy]
            /\ ex' = [ex EXCEPT ![i] = r.ex]
    /\ UNCHANGED <<mgrVars, nInst, bot, calls>>

\* consecutive failed OPENING passes, counted up to MaxFails
CountFails(c, before, after, st) ==
    IF before.pc \in OpeningPcs /\ after.pc = "error_sleep"
    THEN (IF c < MaxFails THEN c + 1 ELSE c)
    ELSE IF st = HEDGED THEN 0 ELSE c

\* a resumption of run_loop, with the failed OPENING passes recorded
LoopStep(i, k, P, F) ==
    /\ Resume(i, k, P, F)
    /\ openFails' = [openFails EXCEPT ![i] =
                        IF loops[i][k].pc = "cancelling" THEN @
                        ELSE CountFails(@, loops[i][k], loops'[i][k], strategy'[i].state)]
    /\ UNCHANGED last


\* ------------------------------------------------------- BotInstance
\* BotInstance.__init__: the instance, its strategy (whose target is
\* overridden by the account's) and its two fresh adapters.
NewBot(cfg) == [config |-> cfg, running |-> FALSE, task |-> 0]
NoBot == NewBot(NoConfig)
BotStrategy(cfg) == [NewStrategy EXCEPT !.target_size_usd = cfg.target_size_usd]
NewAdapters == [a |-> NewExchange, b |-> NewExchange]

\* task.cancel(): CancelledError is delivered when the task next runs.
Cancel(l) == IF l.pc = "cancelled" THEN l ELSE [DeadLoop EXCEPT !.pc = "cancelling"]

\* A live engine loop: spawned, and neither ended nor about to end.
Alive(l) == l.pc \in LivePcs

\* start() up to its first await: a no-op when running, else the flag is
\* set before the adapters are connected.
StartEntry(b) ==
    IF b.running THEN [bot |-> b, proceeds |-> FALSE]
    ELSE [bot |-> [b EXCEPT !.running = TRUE], proceeds |-> TRUE]

SpawnNothing(b, ls) == [bot |-> b, loops |-> ls]
\* start() after both connects: the engine loop is spawned and its handle kept.
SpawnLoop(b, ls) ==
    [bot |-> [b EXCEPT !.task = Len(ls) + 1], loops |-> Append(ls, NewLoop)]

\* stop() up to `await self.task`: a no-op when not running; the flag is
\* cleared first; the task, if any, is cancelled and awaited (awaits = its
\* index, or 0 when stop() goes on without suspending).  Awaiting a task
\* that has already ended does not suspend.
StopEntry(b, ls) ==
    IF ~b.running THEN [bot |-> b, loops |-> ls, awaits |-> 0]
    ELSE IF b.task = 0
         THEN [bot |-> [b EXCEPT !.running = FALSE], loops |-> ls, awaits |-> 0]
         ELSE IF ls[b.task].pc = "cancelled"
              THEN [bot |-> [b EXCEPT !.running = FALSE, !.task = 0],
                    loops |-> ls, awaits |-> 0]
              ELSE [bot |-> [b EXCEPT !.running = FALSE],
                    loops |-> [ls EXCEPT ![b.task] = Cancel(@)],
                    awaits |-> b.task]

\* stop() after the awaited task ended: the handle is cleared.
StopResume(b) == [b EXCEPT !.task = 0]

\* a suspended coroutine
Frame(op, inst, pc, k, via) ==
    [op |-> op, inst |-> inst, pc |-> pc, k |-> k, idx |-> 0, cfg |-> NoConfig,
     via |-> via]
One(f) == SetToBag({f})
Suspended == BagToSet(calls)

\* The awaiter of a finished coroutine.  A child of asyncio.gather (without
\* return_exceptions) that raises makes the gather raise at once; the other
\* children go on.  The result of a fire-and-forget task is dropped.
Settle(m, via, ok) ==
    IF via # "gather" THEN m
    ELSE [m EXCEPT !.pending = @ - 1,
                   !.gather = IF @ # "waiting" THEN @
                              ELSE IF ~ok THEN "raised"
                              ELSE IF m.pending = 1 THEN "returned" ELSE @]

BeginStartSpawns(i, via, rest) ==
    /\ bot' = [bot EXCEPT ![i] = SpawnLoop([@ EXCEPT !.running = TRUE], loops[i]).bot]
    /\ loops' = [loops EXCEPT ![i] = Append(@, NewLoop)]
    /\ calls' = rest (+) One(Frame("start", i, "conn_a", 0, via))
    /\ UNCHANGED <<mgr, nInst, strategy, ex>>
\* start() begins to run (as a task, or awaited by its caller).
BeginStart(i, via, rest) ==
    LET r == StartEntry(bot[i])
    IN /\ bot' = [bot EXCEPT ![i] = r.bot]
       /\ calls' = IF r.proceeds THEN rest (+) One(Frame("start", i, "conn_a", 0, via))
                   ELSE rest
       /\ mgr' = IF r.proceeds THEN mgr ELSE Settle(mgr, via, TRUE)
       /\ UNCHANGED <<loops, nInst, strategy, ex>>

\* stop() begins to run.
BeginStop(i, via, rest) ==
    LET r == StopEntry(bot[i], loops[i])
    IN /\ bot' = [bot EXCEPT ![i] = r.bot]
       /\ loops' = [loops EXCEPT ![i] = r.loops]
       /\ calls' = IF r.awaits # 0 THEN rest (+) One(Frame("stop", i, "await", r.awaits, via))
                   ELSE rest
       /\ mgr' = IF r.awaits # 0 THEN mgr ELSE Settle(mgr, via, TRUE)
       /\ UNCHANGED <<nInst, strategy, ex>>

\* A spawned start() or stop() task runs for the first time.
TaskBegin(f) ==
    /\ BagIn(f, calls)
    /\ f.pc = "enter"
    /\ f.op \in {"start", "stop"}
    /\ IF f.op = "start" THEN BeginStart(f.inst, f.via, calls (-) One(f))
                         ELSE BeginStop(f.inst, f.via, calls (-) One(f))
    /\ UNCHANGED <<accounts, disk, bots, openFails, last>>

\* start() resumes from `await self.ex_a.connect()` or `await
\* self.ex_b.connect()`.  A connect that raises ends start() with the error.
StartConnect(f, F) ==
    /\ BagIn(f, calls)
    /\ f.op = "start"
    /\ f.pc \in {"conn_a", "conn_b"}
    /\ \E fault \in F :
         LET i == f.inst
             rest == calls (-) One(f)
             sp == SpawnLoop(bot[i], loops[i])
         IN IF fault
            THEN /\ calls' = rest
                 /\ mgr' = Settle(mgr, f.via, FALSE)
                 /\ UNCHANGED <<bot, loops, ex>>
            ELSE IF f.pc = "conn_a"
            THEN /\ ex' = [ex EXCEPT ![i].a.connected = TRUE]
                 /\ calls' = rest (+) One([f EXCEPT !.pc = "conn_b"])
                 /\ UNCHANGED <<bot, loops, mgr>>
            ELSE /\ ex' = [ex EXCEPT ![i].b.connected = TRUE]
                 /\ bot' = [bot EXCEPT ![i] = sp.bot]
                 /\ loops' = [loops EXCEPT ![i] = sp.loops]
                 /\ calls' = rest
                 /\ mgr' = Settle(mgr, f.via, TRUE)
    /\ UNCHANGED <<accounts, disk, bots, nInst, strategy, openFails, last>>

\* stop() resumes from `await self.task` once the cancelled task has ended.
StopAwait(f) ==
    /\ BagIn(f, calls)
    /\ f.op = "stop"
    /\ f.pc = "await"
    /\ loops[f.inst][f.k].pc = "cancelled"
    /\ bot' = [bot EXCEPT ![f.inst] = StopResume(@)]
    /\ calls' = calls (-) One(f)
    /\ mgr' = Settle(mgr, f.via, TRUE)
    /\ UNCHANGED <<accounts, disk, bots, nInst, strategy, ex, loops, openFails, last>>


\* ------------------------------------------------- one instance alone
DefaultPath == "config/accounts.json"
Paths == {DefaultPath, "other/accounts.json"}

NoManager == [phase |-> "none", config_path |-> DefaultPath, gather |-> "none",
              pending |-> 0]

Config(ref, name, enabled, target) ==
    [ref |-> ref, name |-> name, enabled |-> enabled, target_size_usd |-> target]

\* One BotInstance after construction.  Its strategy's target is either the
\* float of an AccountConfig or the Decimal the strategy class starts with.
InitEngine ==
    \E target \in {DecimalTarget, FloatTarget} :
        LET cfg == Config(1, "acc1", TRUE, target)
        IN /\ accounts = <<>>
           /\ disk = [p \in Paths |-> <<>>]
           /\ mgr = NoManager
           /\ bots = <<>>
           /\ nInst = 1
           /\ bot = [i \in Insts |-> IF i = 1 THEN NewBot(cfg) ELSE NoBot]
           /\ strategy = [i \in Insts |-> IF i = 1 THEN BotStrategy(cfg) ELSE NewStrategy]
           /\ ex = [i \in Insts |-> NewAdapters]
           /\ loops = [i \in Insts |-> <<>>]
           /\ calls = EmptyBag
           /\ openFails = [i \in Insts |-> 0]
           /\ last = NoCall

\* A caller awaits bot.start(): it runs at once, up to its first await.
CallStart(i) ==
    /\ i \in 1..nInst
    /\ Len(loops[i]) < MaxLoops
    /\ BeginStart(i, "call", calls)
    /\ UNCHANGED <<accounts, disk, bots, openFails, last>>

\* A caller awaits bot.stop().
CallStop(i) ==
    /\ i \in 1..nInst
    /\ BeginStop(i, "call", calls)
    /\ UNCHANGED <<accounts, disk, bots, openFails, last>>

\* One BotInstance whose start() and stop() are each awaited to completion
\* before the next call, over adapters that may raise.
NextEngine ==
    \/ calls = EmptyBag /\ CallStart(1)
    \/ calls = EmptyBag /\ CallStop(1)
    \/ \E f \in Suspended : StartConnect(f, AnyFault)
    \/ \E f \in Suspended : StopAwait(f)
    \/ \E k \in 1..MaxLoops : LoopStep(1, k, Prices, AnyFault)

SpecEngine == InitEngine /\ [][NextEngine]_vars


\* ------------------------------------------------------- BotManager
Names == {"acc1"}
\* the AccountConfig values a caller may pass (their target is a float)
ConfigInputs == {Config(0, n, en, FloatTarget) : n \in Names, en \in BOOLEAN}
\* the account BotManager.__init__ seeds on first run
DefaultAccount == Config(1, "Demo Account", TRUE, FloatTarget)
\* the persisted documents a manager may find
Docs == {<<>>,
         <<Config(0, "acc1", FALSE, FloatTarget)>>,
         <<Config(0, "acc1", TRUE, FloatTarget), Config(0, "acc1", FALSE, FloatTarget)>>}
\* MockExchange.current_price starts at 100.00 and moves by at most 0.5 a call
MockPrices == {100}

\* AccountConfig.__eq__ (pydantic): field by field, whatever the object.
Equal(c1, c2) == [c1 EXCEPT !.ref = 0] = [c2 EXCEPT !.ref = 0]

\* GlobalConfig.save: the whole list is written, always to the default path
\* (save() is called without a path).
Serialize(accs) == [j \in 1..Len(accs) |-> [accs[j] EXCEPT !.ref = 0]]
Save(d, accs) == [d EXCEPT ![DefaultPath] = Serialize(accs)]
\* GlobalConfig.load: one new object per persisted account.
Load(doc) == [j \in 1..Len(doc) |-> [doc[j] EXCEPT !.ref = j]]

RemoveAt(seq, j) == SubSeq(seq, 1, j - 1) \o SubSeq(seq, j + 1, Len(seq))
Min(S) == CHOOSE x \in S : \A y \in S : x <= y

\* the identity of a newly created AccountConfig object: one no live object has
UsedRefs ==
    {accounts[j].ref : j \in 1..Len(accounts)}
        \cup {bot[i].config.ref : i \in 1..nInst}
        \cup {f.cfg.ref : f \in Suspended}
FreshRef == Min((1..(MaxAccounts + 2 * MaxInst + 1)) \ UsedRefs)

PendingRestarts == BagCardinality([f \in {g \in Suspended : g.op = "restart"} |-> calls[f]])
\* instances that can still be constructed within MaxInst
Room == nInst + PendingRestarts < MaxInst

\* bots.index of the first instance whose config equals cfg (0: none)
FirstBotOf(cfg) ==
    LET found == {j \in 1..Len(bots) : Equal(bot[bots[j]].config, cfg)}
    IN IF found = {} THEN 0 ELSE Min(found)

\* BotManager.__init__: load, seed and persist the default account when the
\* list is empty, then _initialize_bots: one instance per enabled account.
Construct ==
    /\ mgr.phase = "unbuilt"
    /\ LET loaded == Load(disk[mgr.config_path])
           accs == IF loaded = <<>> THEN <<DefaultAccount>> ELSE loaded
           en == SelectSeq(accs, LAMBDA c : c.enabled)
       IN /\ accounts' = accs
          /\ disk' = IF loaded = <<>> THEN Save(disk, accs) ELSE disk
          /\ bots' = [j \in 1..Len(en) |-> j]
          /\ nInst' = Len(en)
          /\ bot' = [i \in Insts |-> IF i <= Len(en) THEN NewBot(en[i]) ELSE NoBot]
          /\ strategy' = [i \in Insts |->
                            IF i <= Len(en) THEN BotStrategy(en[i]) ELSE NewStrategy]
    /\ mgr' = [mgr EXCEPT !.phase = "built"]
    /\ UNCHANGED <<ex, loops, calls, openFails, last>>

\* start_all / stop_all: one coroutine per instance, handed to asyncio.gather
\* and awaited; with no instance nothing is awaited.
FanOut(op) ==
    /\ mgr.phase = "built"
    /\ mgr.gather # "waiting"
    /\ mgr.pending = 0
    /\ op = "start" => \A j \in 1..Len(bots) : Len(loops[bots[j]]) < MaxLoops
    /\ calls' = calls (+) SetToBag({Frame(op, bots[j], "enter", 0, "gather") :
                                       j \in 1..Len(bots)})
    /\ mgr' = [mgr EXCEPT !.gather = IF bots = <<>> THEN "returned" ELSE "waiting",
                          !.pending = Len(bots)]
    /\ UNCHANGED <<accounts, disk, bots, nInst, bot, strategy, ex, loops, openFails, last>>

StartAll == FanOut("start")
StopAll == FanOut("stop")

\* add_account: append, save, and for an enabled account construct the
\* instance, append it and spawn its start() without awaiting it.
AddAccount(c) ==
    /\ mgr.phase = "built"
    /\ Len(accounts) < MaxAccounts
    /\ c.enabled => Room
    /\ LET acc == [c EXCEPT !.ref = FreshRef]
           i == nInst + 1
       IN /\ accounts' = Append(accounts, acc)
          /\ disk' = Save(disk, Append(accounts, acc))
          /\ IF c.enabled
             THEN /\ bots' = Append(bots, i)
                  /\ nInst' = i
                  /\ bot' = [bot EXCEPT ![i] = NewBot(acc)]
                  /\ strategy' = [strategy EXCEPT ![i] = BotStrategy(acc)]
                  /\ calls' = calls (+) One(Frame("start", i, "enter", 0, "task"))
             ELSE UNCHANGED <<bots, nInst, bot, strategy, calls>>
    /\ UNCHANGED <<mgr, ex, loops, openFails>>

\* remove_account: for an index in range, the first instance whose config
\* equals the account's gets a spawned stop() and leaves bots at once; the
\* account is popped and the list saved.  Any other index does nothing.
RemoveAccount(index) ==
    /\ mgr.phase = "built"
    /\ IF index \in 1..Len(accounts)
       THEN LET j == FirstBotOf(accounts[index])
            IN /\ IF j # 0
                  THEN /\ calls' = calls (+) One(Frame("stop", bots[j], "enter", 0, "task"))
                       /\ bots' = RemoveAt(bots, j)
                  ELSE UNCHANGED <<calls, bots>>
               /\ accounts' = RemoveAt(accounts, index)
               /\ disk' = Save(disk, RemoveAt(accounts, index))
       ELSE UNCHANGED <<calls, bots, accounts, disk>>
    /\ UNCHANGED <<mgr, nInst, bot, strategy, ex, loops, openFails>>

\* update_account: for an index in range, the account is replaced and saved,
\* and _restart_bot is spawned for the index in bots of the first instance
\* whose config equals the old account.  Any other index does nothing.
UpdateAccount(index, c) ==
    /\ mgr.phase = "built"
    /\ (index \in 1..Len(accounts) /\ FirstBotOf(accounts[index]) # 0) => Room
    /\ IF index \in 1..Len(accounts)
       THEN LET acc == [c EXCEPT !.ref = FreshRef]
                j == FirstBotOf(accounts[index])
            IN /\ accounts' = [accounts EXCEPT ![index] = acc]
               /\ disk' = Save(disk, [accounts EXCEPT ![index] = acc])
               /\ calls' = IF j = 0 THEN calls
                           ELSE calls (+) One([Frame("restart", 0, "enter", 0, "task")
                                                  EXCEPT !.idx = j, !.cfg = acc])
       ELSE UNCHANGED <<accounts, disk, calls>>
    /\ UNCHANGED <<mgr, bots, nInst, bot, strategy, ex, loops, openFails>>

\* _restart_bot from `new_bot = BotInstance(new_config)` on, with b and ls the
\* old instance's fields after its stop(): the new instance takes the old
\* one's place in bots (IndexError, which ends the task, when bots has become
\* too short) and its start() runs up to its first await.
Replace(f, old, b, ls, rest) ==
    LET new == nInst + 1
        st == StartEntry(NewBot(f.cfg))
    IN IF f.idx > Len(bots)
       THEN /\ bot' = [bot EXCEPT ![old] = b]
            /\ loops' = [loops EXCEPT ![old] = ls]
            /\ calls' = rest
            /\ UNCHANGED <<bots, nInst, strategy>>
       ELSE /\ bots' = [bots EXCEPT ![f.idx] = new]
            /\ nInst' = new
            /\ bot' = [bot EXCEPT ![old] = b, ![new] = st.bot]
            /\ strategy' = [strategy EXCEPT ![new] = BotStrategy(f.cfg)]
            /\ loops' = [loops EXCEPT ![old] = ls]
            /\ calls' = rest (+) One(Frame("start", new, "conn_a", 0, "task"))

\* The spawned _restart_bot runs: bots[bot_idx] is read (IndexError ends the
\* task) and its stop() awaited, which suspends only if a task is cancelled.
RestartBegin(f) ==
    /\ BagIn(f, calls)
    /\ f.op = "restart"
    /\ f.pc = "enter"
    /\ LET rest == calls (-) One(f)
       IN IF f.idx > Len(bots)
          THEN /\ calls' = rest
               /\ UNCHANGED <<bots, nInst, bot, strategy, loops>>
          ELSE LET old == bots[f.idx]
                   r == StopEntry(bot[old], loops[old])
               IN IF r.awaits # 0
                  THEN /\ bot' = [bot EXCEPT ![old] = r.bot]
                       /\ loops' = [loops EXCEPT ![old] = r.loops]
                       /\ calls' = rest (+) One([f EXCEPT !.pc = "stop_await",
                                                         !.inst = old, !.k = r.awaits])
                       /\ UNCHANGED <<bots, nInst, strategy>>
                  ELSE Replace(f, old, r.bot, r.loops, rest)
    /\ UNCHANGED <<accounts, disk, mgr, ex, openFails, last>>

\* _restart_bot resumes once the old instance's cancelled task has ended.
RestartResume(f) ==
    /\ BagIn(f, calls)
    /\ f.op = "restart"
    /\ f.pc = "stop_await"
    /\ loops[f.inst][f.k].pc = "cancelled"
    /\ Replace(f, f.inst, StopResume(bot[f.inst]), loops[f.inst], calls (-) One(f))
    /\ UNCHANGED <<accounts, disk, mgr, ex, openFails, last>>

\* The manager as the application drives it: constructed, start_all awaited
\* once (on_mount), then the account buttons; every adapter is a MockExchange.
Mounted == mgr.gather = "returned"

\* BotManager() as the application constructs it loads the default path
AppPaths == {DefaultPath}

InitManager(P, D) ==
    \E path \in P, doc \in D :
        /\ accounts = <<>>
        /\ disk = [p \in Paths |-> doc]
        /\ mgr = [NoManager EXCEPT !.phase = "unbuilt", !.config_path = path]
        /\ bots = <<>>
        /\ nInst = 0
        /\ bot = [i \in Insts |-> NoBot]
        /\ strategy = [i \in Insts |-> NewStrategy]
        /\ ex = [i \in Insts |-> NewAdapters]
        /\ loops = [i \in Insts |-> <<>>]
        /\ calls = EmptyBag
        /\ openFails = [i \in Insts |-> 0]
        /\ last = NoCall

Init == InitManager(AppPaths, Docs)

Next ==
    \/ Construct
    \/ mgr.gather = "none" /\ StartAll
    \/ Mounted /\ UNCHANGED last /\ \E c \in ConfigInputs : AddAccount(c)
    \/ Mounted /\ UNCHANGED last /\ \E index \in 1..MaxAccounts : RemoveAccount(index)
    \/ Mounted /\ UNCHANGED last
          /\ \E index \in 1..MaxAccounts, c \in ConfigInputs : UpdateAccount(index, c)
    \/ \E f \in Suspended : TaskBegin(f)
    \/ \E f \in Suspended : StartConnect(f, NoFault)
    \/ \E f \in Suspended : StopAwait(f)
    \/ \E f \in Suspended : RestartBegin(f)
    \/ \E f \in Suspended : RestartResume(f)
    \/ \E i \in Insts, k \in 1..MaxLoops :
           Resume(i, k, MockPrices, NoFault) /\ UNCHANGED <<openFails, last>>

Spec == Init /\ [][Next]_vars

\* start_all and stop_all over adapters of any ExchangeBase implementation,
\* whose connect may raise; each call is made once the previous one's
\* coroutines have all ended.
FanoutDocs == {<<>>,
               <<Config(0, "acc1", TRUE, FloatTarget), Config(0, "acc1", TRUE, FloatTarget)>>}

InitFanout == InitManager(AppPaths, FanoutDocs)

NextFanout ==
    \/ Construct
    \/ StartAll
    \/ StopAll
    \/ \E f \in Suspended : TaskBegin(f)
    \/ \E f \in Suspended : StartConnect(f, AnyFault)
    \/ \E f \in Suspended : StopAwait(f)
    \/ \E i \in Insts, k \in 1..MaxLoops :
           Resume(i, k, MockPrices, NoFault) /\ UNCHANGED <<openFails, last>>

SpecFanout == InitFanout /\ [][NextFanout]_vars

\* A mounted manager all of whose accounts have been removed, to which
\* enabled accounts are added while the event loop runs the spawned tasks.
InitAdd ==
    /\ accounts = <<>>
    /\ disk = [p \in Paths |-> <<>>]
    /\ mgr = [NoManager EXCEPT !.phase = "built", !.gather = "returned"]
    /\ bots = <<>>
    /\ nInst = 0
    /\ bot = [i \in Insts |-> NoBot]
    /\ strategy = [i \in Insts |-> NewStrategy]
    /\ ex = [i \in Insts |-> NewAdapters]
    /\ loops = [i \in Insts |-> <<>>]
    /\ calls = EmptyBag
    /\ openFails = [i \in Insts |-> 0]
    /\ last = NoCall

RunStartTask == \E f \in Suspended : TaskBegin(f)
RunConnect == \E f \in Suspended : StartConnect(f, NoFault)

\* the enabled accounts a caller may add
EnabledInputs == {Config(0, n, TRUE, FloatTarget) : n \in {"acc1", "acc2"}}

NextAdd ==
    \/ UNCHANGED last /\ \E c \in EnabledInputs : AddAccount(c)
    \/ RunStartTask
    \/ RunConnect
    \/ \E i \in Insts, k \in 1..MaxLoops :
           Resume(i, k, MockPrices, NoFault) /\ UNCHANGED <<openFails, last>>

SpecAdd == InitAdd /\ [][NextAdd]_vars
\* the event loop runs every task that is ready
FairAdd == SpecAdd /\ WF_vars(RunStartTask) /\ WF_vars(RunConnect)

\* What a caller of add_account, remove_account or update_account gets back:
\* none of them has a raise statement or a return value, whatever the index.
ManagerCall(call, index) == Called(call, index, Answer("None"))

\* The three mutators called on a constructed manager with any index, the
\* caller keeping what each call gave back; spawned tasks run, engine loops
\* are left unscheduled.
AddCalled(c) == AddAccount(c) /\ last' = ManagerCall("add_account", 0)
RemoveCalled(index) == RemoveAccount(index) /\ last' = ManagerCall("remove_account", index)
UpdateCalled(index, c) ==
    UpdateAccount(index, c) /\ last' = ManagerCall("update_account", index)

NextIndex ==
    \/ Construct
    \/ \E c \in ConfigInputs : AddCalled(c)
    \/ \E index \in 1..(MaxAccounts + 1) : RemoveCalled(index)
    \/ \E index \in 1..(MaxAccounts + 1), c \in ConfigInputs : UpdateCalled(index, c)
    \/ \E f \in Suspended : TaskBegin(f)
    \/ \E f \in Suspended : StartConnect(f, NoFault)
    \/ \E f \in Suspended : RestartBegin(f)

SpecIndex == Init /\ [][NextIndex]_vars

\* A manager constructed over either path, then mutated; spawned tasks run,
\* engine loops are left unscheduled.
InitPersist == InitManager(Paths, Docs)

NextPersist ==
    \/ Construct
    \/ UNCHANGED last /\ \E c \in ConfigInputs : AddAccount(c)
    \/ UNCHANGED last /\ \E index \in 1..MaxAccounts : RemoveAccount(index)
    \/ UNCHANGED last /\ \E index \in 1..MaxAccounts, c \in ConfigInputs : UpdateAccount(index, c)
    \/ \E f \in Suspended : TaskBegin(f)
    \/ \E f \in Suspended : StartConnect(f, NoFault)
    \/ \E f \in Suspended : RestartBegin(f)

SpecPersist == InitPersist /\ [][NextPersist]_vars

\* ------------------------------------------------ one adapter alone
Sides == {"buy", "sell", "long", "short"}
Amounts == {4, 10, 25}
Order(side, amount, price) ==
    [type |-> "Order", side |-> side, amount |-> amount, price |-> price]

TryOpenUnchecked(adapter, side, amount, price) ==
    [adapter |-> OpenPosition(adapter, side, amount, price),
     result |-> Order(side, amount, price)]
\* MockExchange.open_position as its caller sees it: ConnectionError before
\* anything is recorded when the adapter is not connected, else the position
\* is recorded and the market Order returned.
TryOpen(adapter, side, amount, price) ==
    IF ~adapter.connected
    THEN [adapter |-> adapter, result |-> Answer("ConnectionError")]
    ELSE [adapter |-> OpenPosition(adapter, side, amount, price),
          result |-> Order(side, amount, price)]

TryCloseRaises(adapter, price) ==
    IF CloseReturnsOrder(adapter)
    THEN [adapter |-> ClosePosition(adapter), result |-> Order("close", 0, price)]
    ELSE [adapter |-> adapter, result |-> Answer("KeyError")]
\* MockExchange.close_position as its caller sees it: the closing Order at
\* the adapter's current price when a position existed, else None.
TryClose(adapter, price) ==
    IF CloseReturnsOrder(adapter)
    THEN [adapter |-> ClosePosition(adapter), result |-> Order("close", 0, price)]
    ELSE [adapter |-> adapter, result |-> Answer("None")]

\* A MockExchange just constructed, held as leg A of instance 1.
InitAdapter ==
    /\ accounts = <<>>
    /\ disk = [p \in Paths |-> <<>>]
    /\ mgr = NoManager
    /\ bots = <<>>
    /\ nInst = 1
    /\ bot = [i \in Insts |-> NoBot]
    /\ strategy = [i \in Insts |-> NewStrategy]
    /\ ex = [i \in Insts |-> NewAdapters]
    /\ loops = [i \in Insts |-> <<>>]
    /\ calls = EmptyBag
    /\ openFails = [i \in Insts |-> 0]
    /\ last = NoCall

AdapterFrame == UNCHANGED <<accounts, disk, mgr, bots, nInst, bot, strategy, loops, calls,
                            openFails>>

\* await adapter.connect(), to completion
ConnectCalled ==
    /\ ex' = [ex EXCEPT ![1].a.connected = TRUE]
    /\ last' = Called("connect", 0, Answer("True"))
    /\ AdapterFrame

\* await adapter.open_position(symbol, side, amount); p is the price the
\* adapter's get_price gives it
OpenCalled(side, amount, p) ==
    LET r == TryOpen(ex[1].a, side, amount, p)
    IN /\ ex' = [ex EXCEPT ![1].a = r.adapter]
       /\ last' = Called("open_position", 0, r.result)
       /\ AdapterFrame

\* await adapter.close_position(symbol); p is the adapter's current price
CloseCalled(p) ==
    LET r == TryClose(ex[1].a, p)
    IN /\ ex' = [ex EXCEPT ![1].a = r.adapter]
       /\ last' = Called("close_position", 0, r.result)
       /\ AdapterFrame

\* await adapter.get_positions()
PositionsCalled(p) ==
    /\ ex' = [ex EXCEPT ![1].a = GetPositions(ex[1].a, p)]
    /\ last' = Called("get_positions", 0,
                       [Answer("list") EXCEPT !.amount = Len(PositionList(ex[1].a))])
    /\ AdapterFrame

NextAdapter ==
    \/ ConnectCalled
    \/ \E side \in Sides, amount \in Amounts, p \in Prices : OpenCalled(side, amount, p)
    \/ \E p \in Prices : CloseCalled(p)
    \/ \E p \in Prices : PositionsCalled(p)

SpecAdapter == InitAdapter /\ [][NextAdapter]_vars

\* One BotInstance whose start() and stop() are called at any time, also
\* while an earlier call is still suspended.
NextLifecycle ==
    \/ Len(loops[1]) + BagCardinality(calls) < MaxLoops /\ CallStart(1)
    \/ CallStop(1)
    \/ \E f \in Suspended : StartConnect(f, AnyFault)
    \/ \E f \in Suspended : StopAwait(f)
    \/ \E k \in 1..MaxLoops : LoopStep(1, k, MockPrices, NoFault)

SpecLifecycle == InitEngine /\ [][NextLifecycle]_vars

\* Enabled accounts added to a mounted manager whose adapters are any
\* ExchangeBase implementation: a connect may raise.
NextAddFault ==
    \/ UNCHANGED last /\ \E c \in EnabledInputs : AddAccount(c)
    \/ RunStartTask
    \/ \E f \in Suspended : StartConnect(f, AnyFault)
    \/ \E i \in Insts, k \in 1..MaxLoops :
           Resume(i, k, MockPrices, NoFault) /\ UNCHANGED <<openFails, last>>

SpecAddFault == InitAdd /\ [][NextAddFault]_vars

\* ------------------------------------- an engine that is left running
\* One BotInstance that is started and never stopped, over adapters that
\* answer every call; the event loop resumes the engine whenever it can run.
NextHold ==
    \/ calls = EmptyBag /\ CallStart(1)
    \/ \E f \in Suspended : StartConnect(f, NoFault)
    \/ \E k \in 1..MaxLoops : LoopStep(1, k, Prices, NoFault)

SpecHold == InitEngine /\ [][NextHold]_vars

RunEngine == \E k \in 1..MaxLoops : LoopStep(1, k, Prices, NoFault)

FairHold == SpecHold /\ WF_vars(RunEngine)

\* ------------------------------------------------------------ claims
LoopsOf(i) == {loops[i][k] : k \in 1..Len(loops[i])}
NoLiveLoop(i) == \A l \in LoopsOf(i) : ~Alive(l)

\* C1: every change of a strategy's state goes to the successor of the state
\* it had in the cycle IDLE -> OPENING -> HEDGED -> CLOSING -> IDLE, and a
\* handler that raised (the loop goes to its error sleep) leaves the state
\* as it was.
C1_CycleStep ==
    \A i \in Insts :
        /\ strategy'[i].state # strategy[i].state
              => strategy'[i].state = Succ(strategy[i].state)
        /\ \A k \in 1..Len(loops[i]) :
              (loops[i][k].pc # "error_sleep" /\ loops'[i][k].pc = "error_sleep")
                 => strategy'[i].state = strategy[i].state
C1_StateCycle == [][C1_CycleStep]_vars
\* a loop that went once round the cycle: back in IDLE after _handle_closing
C1_Witness ==
    \E l \in LoopsOf(1) : l.pc = "loop_sleep" /\ strategy[1].state = IDLE

C3_RetryStep ==
    \A i \in Insts : \A k \in 1..Len(loops[i]) :
        /\ (loops[i][k].pc \in OpeningPcs /\ loops'[i][k].pc = "error_sleep")
              => (strategy'[i].state = OPENING /\ openFails'[i] >= 1)
        /\ (loops[i][k].pc = "error_sleep" /\ loops'[i][k] # loops[i][k])
              => loops'[i][k].pc \in {"loop_sleep", "cancelling"}
        /\ (loops[i][k].pc = "loop_sleep" /\ strategy[i].state = OPENING
               /\ loops'[i][k] # loops[i][k])
              => loops'[i][k].pc \in {"get_price_a", "cancelling"}
C3_OpeningRetried ==
    /\ [](\A i \in Insts : openFails[i] >= 1 => strategy[i].state = OPENING)
    /\ [][C3_RetryStep]_vars
\* OPENING entered again after MaxFails consecutive failures
C3_Witness ==
    \E l \in LoopsOf(1) : l.pc = "get_price_a" /\ openFails[1] = MaxFails

\* C4 as stated: an engine loop spawned by a start() that follows a stop()
\* finds the strategy in IDLE.
C4_RestartsIdle ==
    [][\A i \in Insts :
          (Len(loops[i]) >= 1 /\ Len(loops'[i]) > Len(loops[i]))
             => strategy'[i].state = IDLE]_vars
\* C4 amended: from the cancellation to the spawning of the next loop the
\* strategy (state, pnl, target) and the legs' positions stay as they were,
\* so the new loop resumes from the state the engine was cancelled in.
C4_ResumeStep ==
    \A i \in Insts :
        (NoLiveLoop(i) \/ Len(loops'[i]) > Len(loops[i]))
           => /\ strategy'[i] = strategy[i]
              /\ ex'[i].a.position = ex[i].a.position
              /\ ex'[i].b.position = ex[i].b.position
C4_ResumesWhereCancelled == [][C4_ResumeStep]_vars
\* a second loop, just spawned, on a strategy that was cancelled in HEDGED
C4_Witness ==
    /\ Len(loops[1]) = 2
    /\ loops[1][1].pc = "cancelled"
    /\ loops[1][2].pc = "new"
    /\ strategy[1].state = HEDGED

\* the instance is in the manager's bots list
InBots(i) == \E j \in 1..Len(bots) : bots[j] = i
\* the positions in bots of the instance constructed from this very account object
BoundTo(acc) == {j \in 1..Len(bots) : bot[bots[j]].config.ref = acc.ref}
Unterminated(i) == {k \in 1..Len(loops[i]) : loops[i][k].pc # "cancelled"}

\* C5: constructing a BotManager over an empty persisted list yields exactly
\* the seeded default account, persisted, and exactly one BotInstance for it,
\* which is running.
C5_SeededRunning ==
    [][(Construct /\ disk[mgr.config_path] = <<>>)
         => /\ accounts' = <<DefaultAccount>>
            /\ disk'[mgr.config_path] = Serialize(accounts')
            /\ Len(bots') = 1
            /\ bot'[bots'[1]].config = DefaultAccount
            /\ bot'[bots'[1]].running]_vars

\* C6: remove_account(i) on an account that has an instance removes exactly
\* that instance from bots (also when another account has an equal
\* configuration) and leaves every other instance's running flag, engine
\* state, pnl and positions as they were.
C6_RemoveStep(index) ==
    (RemoveAccount(index) /\ BoundTo(accounts[index]) # {})
      => \E j \in BoundTo(accounts[index]) :
            /\ bots' = RemoveAt(bots, j)
            /\ \A i \in (1..nInst) \ {bots[j]} :
                  /\ bot'[i].running = bot[i].running
                  /\ strategy'[i] = strategy[i]
                  /\ ex'[i] = ex[i]
C6_RemovesBoundInstance == [][\A index \in 1..Len(accounts) : C6_RemoveStep(index)]_vars

\* C8: once the manager is constructed, accounts and bots have the same
\* length and bots[j] is the instance built from accounts[j], for every j.
C8_IndexAligned ==
    mgr.phase = "built"
      => /\ Len(bots) = Len(accounts)
         /\ \A j \in 1..Len(bots) : bot[bots[j]].config.ref = accounts[j].ref

\* C9: an instance that is no longer in bots has no engine loop that has not
\* terminated, and no instance ever has two engine loops at once.
C9_StoppedBeforeDropped ==
    \A i \in 1..nInst :
        /\ ~InBots(i) => Unterminated(i) = {}
        /\ Cardinality(Unterminated(i)) <= 1

\* C10: start_all and stop_all never hand the first raised error to their
\* caller, and return only when every instance's operation has ended.
C10_FailuresCollected ==
    /\ mgr.gather # "raised"
    /\ mgr.gather = "returned" => mgr.pending = 0

\* the instance runs: flag set, one live engine loop, and task is its handle
Runs(i) ==
    /\ bot[i].running
    /\ bot[i].task \in 1..Len(loops[i])
    /\ {k \in 1..Len(loops[i]) : Alive(loops[i][k])} = {bot[i].task}
\* every account added has its own instance in bots, once
NoneLostNoneDuplicated ==
    /\ Len(bots) = Len(accounts)
    /\ \A j \in 1..Len(bots) : BoundTo(accounts[j]) = {j}
    /\ \A j1, j2 \in 1..Len(bots) : bots[j1] = bots[j2] => j1 = j2

C11_BadIndexRaises ==
    [][(/\ last' # last
        /\ last'.call \in {"remove_account", "update_account"}
        /\ last'.arg \notin 1..Len(accounts))
         => /\ last'.result = Answer("raised")
            /\ UNCHANGED <<accounts, disk, bots>>]_vars

\* C12: once the manager is constructed, the document persisted at the path
\* it loaded from holds exactly its in-memory account list.
C12_PersistedMatches ==
    mgr.phase = "built" => disk[mgr.config_path] = Serialize(accounts)

\* the await a loop iteration starts with, for each state
FirstPc(st) ==
    CASE st = IDLE -> "idle_sleep"
      [] st = OPENING -> "get_price_a"
      [] st = HEDGED -> "positions_a"
      [] st = CLOSING -> "close_a"

\* C13: a run_loop task ends only by the cancellation stop() requested,
\* never by a failing adapter call or handler; a failure sends the loop to
\* its error sleep with the state unchanged, and the next iteration runs the
\* handler of that same state.
C13_ContainStep ==
    \A i \in Insts : \A k \in 1..Len(loops[i]) :
        /\ (loops[i][k].pc # "cancelled" /\ loops'[i][k].pc = "cancelled")
              => loops[i][k].pc = "cancelling"
        /\ (loops[i][k].pc # "cancelling" /\ loops'[i][k].pc = "cancelling")
              => (bot[i].running /\ ~bot'[i].running /\ bot[i].task = k)
        /\ (Alive(loops[i][k]) /\ loops[i][k].pc # "error_sleep"
               /\ loops'[i][k].pc = "error_sleep")
              => strategy'[i] = strategy[i]
        /\ (loops[i][k].pc = "error_sleep" /\ loops'[i][k] # loops[i][k])
              => (loops'[i][k].pc \in {"loop_sleep", "cancelling"}
                    /\ strategy'[i] = strategy[i])
        /\ (loops[i][k].pc = "loop_sleep" /\ loops'[i][k] # loops[i][k])
              => loops'[i][k].pc \in {FirstPc(strategy[i].state), "cancelling"}
C13_ErrorsContained == [][C13_ContainStep]_vars
\* a monitoring pass of _handle_hedged failed: the loop is in its error
\* sleep, alive, with the state still HEDGED
C13_Witness ==
    \E l \in LoopsOf(1) : l.pc = "error_sleep" /\ strategy[1].state = HEDGED

\* C14: close_position on an adapter without a position returns None, raises
\* nothing and leaves the adapter as it was; with a position, the position is
\* removed and a closing Order returned.
C14_CloseStep ==
    (last' # last /\ last'.call = "close_position")
      => IF ex[1].a.position = NoPosition
         THEN last'.result = Answer("None") /\ ex'[1].a = ex[1].a
         ELSE /\ last'.result \in {Order("close", 0, p) : p \in Prices}
              /\ ex'[1].a.position = NoPosition
              /\ ex'[1].a.connected = ex[1].a.connected
C14_CloseContract == [][C14_CloseStep]_vars
\* a close answered None, on an adapter that is connected and holds nothing
C14_Witness ==
    /\ last = Called("close_position", 0, Answer("None"))
    /\ ex[1].a.connected
    /\ ex[1].a.position = NoPosition

\* C15: open_position before connect has succeeded fails with a
\* ConnectionError and records nothing; on a connected adapter it records the
\* position as asked and returns its Order.
C15_OpenStep ==
    (last' # last /\ last'.call = "open_position")
      => IF ~ex[1].a.connected
         THEN last'.result = Answer("ConnectionError") /\ ex'[1].a = ex[1].a
         ELSE /\ last'.result.type = "Order"
              /\ ex'[1].a.connected
              /\ ex'[1].a.position =
                    Position(last'.result.side, last'.result.amount, last'.result.price)
C15_OpenContract == [][C15_OpenStep]_vars
\* an open refused on a new adapter
C15_Witness ==
    /\ last = Called("open_position", 0, Answer("ConnectionError"))
    /\ ex[1].a = NewExchange

\* the start() coroutines of the instance that are suspended in a connect
Starting(i) == {f \in Suspended : f.op = "start" /\ f.inst = i}

\* C16: start() on a running instance changes nothing, stop() on an instance
\* that is not running changes nothing, and while the instance is running
\* at most one engine loop has been or is being spawned for it.
C16_Idempotent ==
    \A i \in 1..nInst :
        /\ bot[i].running => StartEntry(bot[i]) = [bot |-> bot[i], proceeds |-> FALSE]
        /\ ~bot[i].running =>
              StopEntry(bot[i], loops[i]) = [bot |-> bot[i], loops |-> loops[i], awaits |-> 0]
        /\ bot[i].running =>
              BagCardinality([f \in Starting(i) |-> calls[f]])
                  + Cardinality(Unterminated(i)) <= 1

\* C17: whenever an instance's running flag is false, none of its engine
\* loops is still to terminate and its task handle is cleared.
C17_InactiveMeansStopped ==
    \A i \in 1..nInst :
        ~bot[i].running => (Unterminated(i) = {} /\ bot[i].task = 0)

\* what a caller of the manager can read: the lists, the persisted document,
\* the instances' flags and handles, and what its calls gave back
Observable == <<accounts, disk, mgr, bots, bot, last>>

\* C18: when the start() that add_account spawned ends because a connect
\* raised, something the caller can read records it.
C18_StartFailureObservable ==
    [][\A f \in Suspended :
          (f.op = "start" /\ f.via = "task" /\ StartConnect(f, {TRUE}))
             => Observable' # Observable]_vars

\* C19: a pending restart always designates, by its index, an instance of
\* bots that belongs to no account of the current list (it is the updated
\* account's old instance), and once it has begun stopping an instance that
\* instance is still the one at its index.
C19_RestartOnItsOwnInstance ==
    \A f \in Suspended :
        f.op = "restart" =>
            /\ f.idx \in 1..Len(bots)
            /\ f.pc = "stop_await" => bots[f.idx] = f.inst
            /\ f.pc = "enter" =>
                  \A j \in 1..Len(accounts) : accounts[j].ref # bot[bots[f.idx]].config.ref

\* C20: once every spawned task has completed, each enabled account of the
\* list has exactly one instance in bots, each disabled account has none,
\* and every instance in bots belongs to an account of the list.
C20_OnePerEnabledAccount ==
    (mgr.phase = "built" /\ calls = EmptyBag) =>
        /\ \A j \in 1..Len(accounts) :
              Cardinality(BoundTo(accounts[j])) = IF accounts[j].enabled THEN 1 ELSE 0
        /\ \A k \in 1..Len(bots) :
              \E j \in 1..Len(accounts) : accounts[j].ref = bot[bots[k]].config.ref

\* C21: whenever an engine loop of an instance is alive both of its adapters
\* are connected; a loop is spawned only by the step in which the second
\* connect succeeds, and a connect that raises spawns none.
C21_SpawnStep ==
    \A i \in 1..nInst :
        /\ Len(loops'[i]) > Len(loops[i])
              => (/\ \E f \in Starting(i) : f.pc = "conn_b"
                  /\ ex[i].a.connected
                  /\ ex'[i].a.connected /\ ex'[i].b.connected)
        /\ (\E f \in Starting(i) : StartConnect(f, {TRUE})) => loops'[i] = loops[i]
C21_ConnectedBeforeSpawn ==
    /\ [](\A i \in 1..nInst : \A l \in LoopsOf(i) :
             Alive(l) => (ex[i].a.connected /\ ex[i].b.connected))
    /\ [][C21_SpawnStep]_vars
\* the second connect raised: leg A is connected, leg B is not, start() has
\* ended and there is no loop
C21_Witness ==
    /\ calls = EmptyBag
    /\ bot[1].running
    /\ ex[1].a.connected
    /\ ~ex[1].b.connected
    /\ loops[1] = <<>>

\* the stop() coroutines of the instance that await its cancelled loop
Stopping(i) == {f \in Suspended : f.op = "stop" /\ f.inst = i}

\* C22: the step in which stop() cancels the loop, every step taken while
\* stop() awaits it (the unwinding of the cancelled loop among them) and the
\* step in which stop() completes leave the positions of both legs, the
\* engine state and the aggregate pnl as they were: nothing is closed.
C22_CancelStep ==
    \A i \in 1..nInst :
        (\/ bot[i].running /\ ~bot'[i].running
         \/ Stopping(i) # {}
         \/ \E k \in 1..Len(loops[i]) :
               loops[i][k].pc = "cancelling" /\ loops'[i][k].pc = "cancelled")
          => /\ ex'[i].a.position = ex[i].a.position
             /\ ex'[i].b.position = ex[i].b.position
             /\ strategy'[i].state = strategy[i].state
             /\ strategy'[i].current_pnl = strategy[i].current_pnl
C22_CancelClosesNothing == [][C22_CancelStep]_vars
\* stop() has completed on an engine cancelled while hedged: both legs
\* still hold their positions and the pnl last observed is still shown
C22_Witness ==
    /\ calls = EmptyBag
    /\ ~bot[1].running
    /\ Len(loops[1]) = 1
    /\ loops[1][1].pc = "cancelled"
    /\ strategy[1].state = HEDGED
    /\ ex[1].a.position # NoPosition
    /\ ex[1].b.position # NoPosition
    /\ strategy[1].current_pnl # 0

\* C23: when leg B's open fails after leg A's open succeeded, leg A's
\* position is kept and the state stays OPENING; while the state is OPENING
\* a position held on leg A changes only by the open on leg A of a later
\* OPENING pass, which replaces it, and is never closed.
C23_PartialStep ==
    \A i \in 1..nInst :
        /\ \A k \in 1..Len(loops[i]) :
              (loops[i][k].pc = "open_b" /\ loops'[i][k].pc = "error_sleep")
                 => /\ ex[i].a.position # NoPosition
                    /\ ex'[i].a.position = ex[i].a.position
                    /\ ex'[i].b.position = ex[i].b.position
                    /\ strategy'[i].state = OPENING
        /\ (strategy[i].state = OPENING /\ ex[i].a.position # NoPosition
               /\ ex'[i].a.position # ex[i].a.position)
              => /\ ex'[i].a.position # NoPosition
                 /\ \E k \in 1..Len(loops[i]) :
                       loops[i][k].pc = "open_a" /\ loops'[i][k].pc = "open_b"
C23_PartialFillKept == [][C23_PartialStep]_vars
\* the first OPENING pass of the only loop has just failed on leg B: leg A
\* holds its position, leg B holds none
C23_Witness ==
    /\ Len(loops[1]) = 1
    /\ loops[1][1].pc = "error_sleep"
    /\ openFails[1] = 1
    /\ strategy[1].state = OPENING
    /\ ex[1].a.position # NoPosition
    /\ ex[1].b.position = NoPosition

\* C24: the state leaves CLOSING only by the step in which _handle_closing
\* returns from leg B's close, having closed leg A before: then neither leg
\* holds a position, the pnl is zero and the state is IDLE.  When leg A's
\* close raises nothing is closed on either leg; when leg B's close raises
\* leg A stays closed; in both cases the state stays CLOSING and the pnl
\* keeps its value.
C24_ClosingStep ==
    \A i \in 1..nInst :
        /\ (strategy[i].state = CLOSING /\ strategy'[i].state # CLOSING)
              => /\ \E k \in 1..Len(loops[i]) :
                       loops[i][k].pc = "close_b" /\ loops'[i][k].pc = "loop_sleep"
                 /\ ex[i].a.position = NoPosition
                 /\ ex'[i].a.position = NoPosition
                 /\ ex'[i].b.position = NoPosition
                 /\ strategy'[i].current_pnl = 0
                 /\ strategy'[i].state = IDLE
        /\ \A k \in 1..Len(loops[i]) :
              /\ (loops[i][k].pc = "close_a" /\ loops'[i][k].pc = "error_sleep")
                    => (ex'[i] = ex[i] /\ strategy'[i] = strategy[i])
              /\ (loops[i][k].pc = "close_b" /\ loops'[i][k].pc = "error_sleep")
                    => (ex'[i] = ex[i] /\ ex[i].a.position = NoPosition
                          /\ strategy'[i] = strategy[i])
              /\ (loops[i][k].pc = "close_a" /\ loops'[i][k].pc = "close_b")
                    => (ex'[i].a.position = NoPosition /\ ex'[i].b = ex[i].b
                          /\ strategy'[i] = strategy[i])
C24_ClosingCompletes ==
    /\ [](\A i \in 1..nInst : \A l \in LoopsOf(i) :
             l.pc \in ClosingPcs => strategy[i].state = CLOSING)
    /\ [][C24_ClosingStep]_vars
\* leg A's close has just raised: both legs still hold their positions, the
\* state is CLOSING and the pnl observed during the hold is still shown
C24_Witness ==
    /\ Len(loops[1]) = 1
    /\ loops[1][1].pc = "error_sleep"
    /\ strategy[1].state = CLOSING
    /\ strategy[1].current_pnl # 0
    /\ ex[1].a.position # NoPosition
    /\ ex[1].b.position # NoPosition

\* C25: in an engine that is left running over adapters that answer, a
\* HEDGED state is always followed by CLOSING and a CLOSING state by IDLE;
\* the state leaves HEDGED only for CLOSING, only by the last sleep of the
\* hold, whatever pnl was observed.
C25_HoldStep ==
    \A i \in 1..nInst :
        (strategy[i].state = HEDGED /\ strategy'[i].state # HEDGED)
          => /\ strategy'[i].state = CLOSING
             /\ \E k \in 1..Len(loops[i]) :
                   /\ loops[i][k].pc = "hold_sleep"
                   /\ loops[i][k].n = 1
                   /\ loops'[i][k].pc = "loop_sleep"
C25_HoldEnds ==
    /\ (strategy[1].state = HEDGED) ~> (strategy[1].state = CLOSING)
    /\ (strategy[1].state = CLOSING) ~> (strategy[1].state = IDLE)
    /\ [][C25_HoldStep]_vars
\* the hold has just ended on a loss: the state is CLOSING
C25_Witness ==
    /\ Len(loops[1]) = 1
    /\ loops[1][1].pc = "loop_sleep"
    /\ strategy[1].state = CLOSING
    /\ strategy[1].current_pnl < 0

\* C26: once _handle_opening has fetched both prices, leg A's amount is the
\* target divided by the price fetched from leg A and leg B's amount the
\* target divided by the price fetched from leg B (1000 at 100 gives 10, at
\* 250 gives 4), and each open records a position of its own leg's amount.
C26_OpenStep ==
    \A i \in 1..nInst : \A k \in 1..Len(loops[i]) :
        /\ (loops[i][k].pc = "open_a" /\ loops'[i][k].pc = "open_b")
              => ex'[i].a.position.size = loops[i][k].amount_a
        /\ (loops[i][k].pc = "open_b" /\ loops'[i][k].pc = "loop_sleep")
              => ex'[i].b.position.size = loops[i][k].amount_b
C26_LegAmounts ==
    /\ [](\A i \in 1..nInst : \A l \in LoopsOf(i) :
             l.pc \in {"open_a", "open_b"} =>
                /\ l.amount_a * l.price_a = strategy[i].target_size_usd.val
                /\ l.amount_b * l.price_b = strategy[i].target_size_usd.val
                /\ l.price_a = 100 => l.amount_a = 10
                /\ l.price_a = 250 => l.amount_a = 4
                /\ l.price_b = 100 => l.amount_b = 10
                /\ l.price_b = 250 => l.amount_b = 4)
    /\ [][C26_OpenStep]_vars
\* hedged with leg A opened from a price of 100 and leg B from a price of 250
C26_Witness ==
    /\ strategy[1].state = HEDGED
    /\ ex[1].a.position.size = 10
    /\ ex[1].b.position.size = 4

\* the engine loops of the instance that are alive
AliveLoops(i) == {k \in 1..Len(loops[i]) : Alive(loops[i][k])}

\* C27: however start() and stop() of an instance interleave, at most one
\* of its engine loops is alive and an alive loop is the one its task
\* handle refers to.
C27_OneLoopWithHandle ==
    \A i \in 1..nInst :
        /\ Cardinality(AliveLoops(i)) <= 1
        /\ \A k \in AliveLoops(i) : bot[i].task = k

\* C28: when a start() ends because a connect raised, the instance's
\* running flag is false afterwards, so that a later start() is not refused
\* by the guard and connects again.
C28_FailedStartStep ==
    \A f \in Suspended :
        (f.op = "start" /\ StartConnect(f, {TRUE}))
           => /\ ~bot'[f.inst].running
              /\ StartEntry(bot'[f.inst]).proceeds
C28_FailedStartNotRunning == [][C28_FailedStartStep]_vars

====
